---------------------------- MODULE Spec2Model ----------------------------
(***************************************************************************)
(* Model of the Mercurial extension src/vcs/src/main/resources/ext.py:     *)
(* the raw-diff emitter (_diff_git_raw), the merge reconciliation of       *)
(* log_git (really_differs) and the length-prefixed dump (__dump,          *)
(* __dump_metadata).                                                       *)
(*                                                                         *)
(* Paths are the numbers 1..NumPaths; their numeric order stands for the   *)
(* byte-wise order sorted() gives the path names.  Bytes are small         *)
(* numbers or one-character strings.  The output stream is the sequence    *)
(* of the arguments of write(), one chunk per call.                        *)
(***************************************************************************)
EXTENDS Integers, Sequences, FiniteSets, TLC

NumPaths == 2
NumRevs == 3

Paths == 1..NumPaths
None == 0
Absent == "absent"

RECURSIVE SumTo(_, _)
SumTo(f, n) == IF n = 0 THEN 0 ELSE f[n] + SumTo(f, n - 1)

Min(S) == CHOOSE x \in S : \A y \in S : x <= y
Max(S) == CHOOSE x \in S : \A y \in S : x >= y

(***************************************************************************)
(* mode(fctx): the git mode of a file's flags.  Any other flags value      *)
(* falls off the end of the function and yields Python's None.             *)
(***************************************************************************)
Flags == {"", "x", "l"}

mode(flags) ==
    IF flags = "" THEN "100644"
    ELSE IF flags = "x" THEN "100755"
    ELSE IF flags = "l" THEN "120000"
    ELSE "None"

(***************************************************************************)
(* difflib.SequenceMatcher(None, a, b) on byte strings short enough that   *)
(* the autojunk heuristic (200 elements and more) never applies.           *)
(***************************************************************************)
\* length of the common run of a from i and b from j inside [i, ahi) x [j, bhi)
RECURSIVE RunLen(_, _, _, _, _, _)
RunLen(a, b, i, j, ahi, bhi) ==
    IF i < ahi /\ j < bhi /\ a[i] = b[j]
    THEN 1 + RunLen(a, b, i + 1, j + 1, ahi, bhi)
    ELSE 0

\* find_longest_match: the longest block, the earliest in a, then the earliest in b
find_longest_match(a, b, alo, ahi, blo, bhi) ==
    LET cells == (alo..(ahi - 1)) \X (blo..(bhi - 1))
        k == IF cells = {} THEN 0
             ELSE Max({RunLen(a, b, c[1], c[2], ahi, bhi) : c \in cells})
    IN
    IF k = 0 THEN <<alo, blo, 0>>
    ELSE LET i == Min({c[1] : c \in {d \in cells : RunLen(a, b, d[1], d[2], ahi, bhi) = k}})
             j == Min({c[2] : c \in {d \in cells : d[1] = i /\ RunLen(a, b, d[1], d[2], ahi, bhi) = k}})
         IN <<i, j, k>>

\* get_matching_blocks, summed: the number of matched elements
RECURSIVE matches(_, _, _, _, _, _)
matches(a, b, alo, ahi, blo, bhi) ==
    LET m == find_longest_match(a, b, alo, ahi, blo, bhi)
        i == m[1]
        j == m[2]
        k == m[3]
    IN IF k = 0 THEN 0
       ELSE k + (IF alo < i /\ blo < j THEN matches(a, b, alo, i, blo, j) ELSE 0)
              + (IF i + k < ahi /\ j + k < bhi
                 THEN matches(a, b, i + k, ahi, j + k, bhi) ELSE 0)

Count(s, e) == Cardinality({n \in 1..Len(s) : s[n] = e})
Elems(s) == {s[n] : n \in 1..Len(s)}

\* quick_ratio counts the multiset intersection of the elements
quick_matches(a, b) ==
    LET es == Elems(a)
        ix == CHOOSE f \in [1..Cardinality(es) -> es] : \A x, y \in DOMAIN f : x # y => f[x] # f[y]
        per == [n \in 1..Cardinality(es) |->
                   IF Count(a, ix[n]) < Count(b, ix[n]) THEN Count(a, ix[n]) ELSE Count(b, ix[n])]
    IN SumTo(per, Cardinality(es))

\* real_quick_ratio bounds the matches by the shorter length
real_quick_matches(a, b) == IF Len(a) < Len(b) THEN Len(a) ELSE Len(b)

(***************************************************************************)
(* Ratios are pairs <<numerator, denominator>>.  _calculate_ratio gives    *)
(* 2.0 * matches / length, and 1.0 for two empty strings.                  *)
(***************************************************************************)
calculate_ratio(m, length) == IF length > 0 THEN <<2 * m, length>> ELSE <<1, 1>>

Less(r, t) == r[1] * t[2] < t[1] * r[2]

Zero == <<0, 1>>

ratioNoCutoff(a, b, threshold) ==
    calculate_ratio(matches(a, b, 1, Len(a) + 1, 1, Len(b) + 1), Len(a) + Len(b))

ratio(a, b, threshold) ==
    IF Less(calculate_ratio(real_quick_matches(a, b), Len(a) + Len(b)), threshold) THEN Zero
    ELSE IF Less(calculate_ratio(quick_matches(a, b), Len(a) + Len(b)), threshold) THEN Zero
    ELSE LET r == calculate_ratio(matches(a, b, 1, Len(a) + 1, 1, Len(b) + 1), Len(a) + Len(b))
         IN IF Less(r, threshold) THEN Zero ELSE r

\* the threshold _diff_git_raw passes to ratio: 0.5
Threshold == <<1, 2>>

\* int(ratio * 100): truncation towards zero
score(r) == (r[1] * 100) \div r[2]

(***************************************************************************)
(* The output stream: one chunk per write() call.  writeln(s) is write(s)  *)
(* followed by write(b'\n').  A chunk of raw bytes carries the bytes; an   *)
(* index line and a patch body carry the line's fields and the paths the   *)
(* patch covers.                                                           *)
(***************************************************************************)
Bytes(b) == [k |-> "bytes", v |-> b]
Index(l) == [k |-> "index", v |-> l]
Patch(paths) == [k |-> "patch", v |-> paths]
NL == Bytes(<<"\n">>)

write(s) == <<s>>
writeln(s) == write(s) \o write(NL)

Delimiter == <<"#", "@", "!", "_", "-", "=", "&">>

Digits == <<"0", "1", "2", "3", "4", "5", "6", "7", "8", "9">>

\* str(i).encode('ascii'): the decimal digits, a minus sign first for i < 0
RECURSIVE NatToStr(_)
NatToStr(n) == IF n < 10 THEN <<Digits[n + 1]>> ELSE NatToStr(n \div 10) \o <<Digits[(n % 10) + 1]>>

int_to_str(n) == IF n < 0 THEN <<"-">> \o NatToStr(0 - n) ELSE NatToStr(n)

\* b' '.join(l)
RECURSIVE Join(_)
Join(l) == IF Len(l) = 0 THEN <<>>
           ELSE IF Len(l) = 1 THEN l[1]
           ELSE l[1] \o <<" ">> \o Join(Tail(l))

\* sorted(S) for a set of paths
RECURSIVE sorted(_)
sorted(S) == IF S = {} THEN <<>> ELSE <<Min(S)>> \o sorted(S \ {Min(S)})

RECURSIVE Flatten(_)
Flatten(ss) == IF Len(ss) = 0 THEN <<>> ELSE Head(ss) \o Flatten(Tail(ss))

(***************************************************************************)
(* _diff_git_raw(repo, ctx1, ctx2, modified, added, removed, showPatch).   *)
(* v is what the repository answers for the two changesets: v.f1 and v.f2  *)
(* are the flags of each path in ctx1 and ctx2 (Absent when the path is    *)
(* not in the manifest), v.renamed[p] is the source fctx.renamed() names   *)
(* for ctx2.filectx(p) (None when it is falsy), v.copied[p] the entry of   *)
(* pathcopies(ctx1, ctx2) (None when p is no key), v.fdata the content of  *)
(* a file with rename provenance and v.pdata the content of its file       *)
(* parent fctx.p1(), the revision of the rename source as ctx1 holds it.   *)
(***************************************************************************)
\* removed_copy with no source ever discarded
removed_copy_all(v, added, removed) == removed

removed_copy(v, added, removed) ==
    removed \ {IF v.renamed[p] # None THEN v.renamed[p] ELSE v.copied[p] : p \in added}

\* indexLine with the path-copies map consulted before the rename provenance
indexLine_copiesFirst(v, modified, added, removed, path) ==
    IF path \in modified THEN
        [op |-> "M", m1 |-> mode(v.f1[path]), m2 |-> mode(v.f2[path]),
         score |-> -1, old |-> None, path |-> path]
    ELSE IF path \in added THEN
        IF v.copied[path] # None THEN
            [op |-> IF v.copied[path] \in removed THEN "R" ELSE "C",
             m1 |-> mode(v.f2[path]), m2 |-> mode(v.f2[path]),
             score |-> 100,
             old |-> v.copied[path], path |-> path]
        ELSE IF v.renamed[path] # None THEN
            [op |-> IF v.renamed[path] \in removed THEN "R" ELSE "C",
             m1 |-> mode(v.f1[v.renamed[path]]), m2 |-> mode(v.f2[path]),
             score |-> score(ratio(v.pdata, v.fdata, Threshold)),
             old |-> v.renamed[path], path |-> path]
        ELSE
            [op |-> "A", m1 |-> "000000", m2 |-> mode(v.f2[path]),
             score |-> -1, old |-> None, path |-> path]
    ELSE
        [op |-> "D", m1 |-> mode(v.f1[path]), m2 |-> "000000",
         score |-> -1, old |-> None, path |-> path]

indexLine(v, modified, added, removed, path) ==
    IF path \in modified THEN
        [op |-> "M", m1 |-> mode(v.f1[path]), m2 |-> mode(v.f2[path]),
         score |-> -1, old |-> None, path |-> path]
    ELSE IF path \in added THEN
        IF v.renamed[path] # None THEN
            [op |-> IF v.renamed[path] \in removed THEN "R" ELSE "C",
             m1 |-> mode(v.f1[v.renamed[path]]), m2 |-> mode(v.f2[path]),
             score |-> score(ratio(v.pdata, v.fdata, Threshold)),
             old |-> v.renamed[path], path |-> path]
        ELSE IF v.copied[path] # None THEN
            [op |-> IF v.copied[path] \in removed THEN "R" ELSE "C",
             m1 |-> mode(v.f2[path]), m2 |-> mode(v.f2[path]),
             score |-> 100,
             old |-> v.copied[path], path |-> path]
        ELSE
            [op |-> "A", m1 |-> "000000", m2 |-> mode(v.f2[path]),
             score |-> -1, old |-> None, path |-> path]
    ELSE
        [op |-> "D", m1 |-> mode(v.f1[path]), m2 |-> "000000",
         score |-> -1, old |-> None, path |-> path]

\* indexLines in the order of list(modified) + list(added) + list(removed_copy), unsorted
indexLines_listOrder(v, modified, added, removed) ==
    LET order == sorted(modified) \o sorted(added) \o sorted(removed_copy(v, added, removed))
    IN [n \in 1..Len(order) |-> indexLine(v, modified, added, removed, order[n])]

\* the index lines, in the order of the loop over sorted(modified | added | removed_copy)
indexLines(v, modified, added, removed) ==
    LET order == sorted(modified \cup added \cup removed_copy(v, added, removed))
    IN [n \in 1..Len(order) |-> indexLine(v, modified, added, removed, order[n])]

diff_git_raw_out(v, modified, added, removed, showPatch) ==
    LET ls == indexLines(v, modified, added, removed)
        touched == modified \cup added \cup removed_copy(v, added, removed)
    IN Flatten([n \in 1..Len(ls) |-> writeln(Index(ls[n]))])
       \o (IF showPatch
           THEN writeln(Bytes(<<>>)) \o (IF touched = {} THEN <<>> ELSE write(Patch(touched)))
           ELSE <<>>)

(***************************************************************************)
(* What the repository answers for a pair of changesets.                   *)
(***************************************************************************)
EmptyData == <<>>

\* sample contents of a renamed file, b'' b'a' b'ab' b'ac' b'cba' b'dd', and
\* the content b'ab' of the file parent it was renamed from
Contents == {<<>>, <<1>>, <<1, 2>>, <<1, 3>>, <<3, 2, 1>>, <<4, 4>>}
ParentContents == {<<1, 2>>}

Snapshots == [Paths -> Flags \cup {Absent}]

present(f) == {p \in Paths : f[p] # Absent}

\* repo.status(ctx1, ctx2)[:3] never puts a path in two of its lists
statusAdded(f1, f2) == present(f2) \ present(f1)
statusRemoved(f1, f2) == present(f1) \ present(f2)
mustBeModified(f1, f2) == {p \in present(f1) \cap present(f2) : f1[p] # f2[p]}
mayBeModified(f1, f2) == present(f1) \cap present(f2)

\* provenance names a source that ctx1 holds, for a path ctx2 adds
sourcesFor(f1, f2, p) ==
    {None} \cup (IF p \in statusAdded(f1, f2) THEN present(f1) \ {p} ELSE {})

RECURSIVE provenancesUpTo(_, _, _)
provenancesUpTo(f1, f2, n) ==
    IF n = 0 THEN {<<>>}
    ELSE {Append(r, src) : r \in provenancesUpTo(f1, f2, n - 1), src \in sourcesFor(f1, f2, n)}

Provenances(f1, f2) == provenancesUpTo(f1, f2, NumPaths)

NoProvenance == [p \in Paths |-> None]

DataPairs(renamed) ==
    IF renamed = NoProvenance THEN {<<EmptyData, EmptyData>>} ELSE ParentContents \X Contents

VARIABLES cmd, pc, revs, limit, i, cs, out, done

vars == <<cmd, pc, revs, limit, i, cs, out, done>>

(***************************************************************************)
(* diff_git_raw(ui, repo, rev1, rev2, **opts): one comparison, the sets    *)
(* of repo.status cut down to opts['files'] when that is not empty.        *)
(***************************************************************************)
\* opts['files']: empty, or a list of names; .files is the set of the paths
\* it names.  The lists tried name no path of the repository or its first path.
NoFilter == [on |-> FALSE, files |-> {}]

Wanted == {NoFilter, [on |-> TRUE, files |-> {}], [on |-> TRUE, files |-> {1}]}

keep(S, wanted) == IF wanted.on THEN S \cap wanted.files ELSE S

rawModified(c) == keep(c.modified, c.wanted)
rawAdded(c) == keep(statusAdded(c.f1, c.f2), c.wanted)
rawRemoved(c) == keep(statusRemoved(c.f1, c.f2), c.wanted)

InitRaw ==
    /\ cmd = "diff-git-raw"
    /\ pc = "start"
    /\ revs = <<>>
    /\ limit = -1
    /\ i = 0
    /\ \E wanted \in Wanted, patch \in BOOLEAN :
         /\ wanted.on => ~patch
         /\ cs = [parents |-> 0, wanted |-> wanted, patch |-> patch]
    /\ out = <<>>
    /\ done = <<>>

diff_git_raw ==
    /\ cmd = "diff-git-raw"
    /\ pc = "start"
    /\ \E f1 \in Snapshots, f2 \in Snapshots :
         \E modified \in SUBSET mayBeModified(f1, f2) :
           /\ mustBeModified(f1, f2) \subseteq modified
           /\ LET provenances == Provenances(f1, f2) IN
              \E renamed \in provenances, copied \in provenances :
                \E d \in DataPairs(renamed) :
                  /\ cs' = [parents |-> 1, f1 |-> f1, f2 |-> f2, modified |-> modified,
                            renamed |-> renamed, copied |-> copied,
                            pdata |-> d[1], fdata |-> d[2],
                            wanted |-> cs.wanted, patch |-> cs.patch]
                  /\ out' = diff_git_raw_out(cs', rawModified(cs'), rawAdded(cs'),
                                             rawRemoved(cs'), cs.patch)
    /\ pc' = "done"
    /\ UNCHANGED <<cmd, revs, limit, i, done>>

NextRaw == diff_git_raw

SpecRaw == InitRaw /\ [][NextRaw]_vars

(***************************************************************************)
(* __dump_metadata(ctx).  The hex id, branch, user and date are what the   *)
(* repository gives; they are short opaque byte strings here.              *)
(***************************************************************************)
hex(r) == <<"h">> \o int_to_str(r)
Branch == <<"b">>
User == <<"u">>
Date == <<"t">>

dump_metadata(c) ==
    writeln(Bytes(Delimiter))
    \o writeln(Bytes(hex(c.rev)))
    \o writeln(Bytes(int_to_str(c.rev)))
    \o writeln(Bytes(Branch))
    \o writeln(Bytes(Join([n \in 1..Len(c.prevs) |-> hex(c.prevs[n])])))
    \o writeln(Bytes(Join([n \in 1..Len(c.prevs) |-> int_to_str(c.prevs[n])])))
    \o writeln(Bytes(User))
    \o writeln(Bytes(Date))
    \o writeln(Bytes(int_to_str(Len(c.desc))))
    \o write(Bytes(c.desc))

(***************************************************************************)
(* log_git(ui, repo, revs, **opts).  One step is one turn of the loop      *)
(* over revrange(repo, [revs]).  The files of the changesets it walks are  *)
(* regular files.                                                          *)
(***************************************************************************)
RegularSnapshots == [Paths -> {"", Absent}]

NullSnapshot == [p \in Paths |-> Absent]

LogDesc == <<"m", "\n">>

\* repo.status(p1, ctx)[:3] and repo.status(p2, ctx)[:3] of a merge, with the
\* answers of patch.diff: diff1 and diff2 are the paths whose diff against p1
\* and against p2 yields any chunk
status(c) ==
    [modified_p1 |-> c.modified_p1, added_p1 |-> statusAdded(c.fp1, c.f2),
     removed_p1 |-> statusRemoved(c.fp1, c.f2),
     modified_p2 |-> c.modified_p2, added_p2 |-> statusAdded(c.fp2, c.f2),
     removed_p2 |-> statusRemoved(c.fp2, c.f2),
     diff1 |-> c.diff1, diff2 |-> c.diff2]

\* really_differs with "or" in place of "and"
really_differs_either(s, files) == {path \in files : path \in s.diff1 \/ path \in s.diff2}

\* really_differs that looks at the diff against p2 only
really_differs_p2(s, files) == {path \in files : path \in s.diff2}

\* really_differs(repo, p1, p2, ctx, files)
really_differs(s, files) == {path \in files : path \in s.diff1 /\ path \in s.diff2}

added_both(s) == s.added_p1 \cap s.added_p2
modified_both(s) == s.modified_p1 \cap s.modified_p2
removed_both(s) == s.removed_p1 \cap s.removed_p2

candidate_modified_p1(s) == modified_both(s) \cup (s.modified_p1 \cap s.added_p2)
candidate_added_p1(s) == added_both(s) \cup (s.added_p1 \cap s.modified_p2)
candidate_modified_p2(s) == modified_both(s) \cup (s.modified_p2 \cap s.added_p1)
\* candidate_added_p2 without the paths added against p2 and modified against p1
candidate_added_p2_bothOnly(s) == added_both(s)

candidate_added_p2(s) == added_both(s) \cup (s.added_p2 \cap s.modified_p1)

combined_modified_p1(s) == really_differs(s, candidate_modified_p1(s))
combined_added_p1(s) == really_differs(s, candidate_added_p1(s))
combined_modified_p2(s) == really_differs(s, candidate_modified_p2(s))
combined_added_p2(s) == really_differs(s, candidate_added_p2(s))

\* the reconciliation of a merge: the sets log_git hands to the two calls of
\* _diff_git_raw, laid out as the status sets they replace
reconcile(s) ==
    [modified_p1 |-> combined_modified_p1(s), added_p1 |-> combined_added_p1(s),
     removed_p1 |-> removed_both(s),
     modified_p2 |-> combined_modified_p2(s), added_p2 |-> combined_added_p2(s),
     removed_p2 |-> removed_both(s),
     diff1 |-> s.diff1, diff2 |-> s.diff2]

\* the two comparisons of a merge, as _diff_git_raw sees them
view_p1(c) == [f1 |-> c.fp1, f2 |-> c.f2, renamed |-> c.renamed, copied |-> c.copied,
               pdata |-> c.pdata, fdata |-> c.fdata]
view_p2(c) == [f1 |-> c.fp2, f2 |-> c.f2, renamed |-> c.renamed, copied |-> c.copied,
               pdata |-> c.pdata, fdata |-> c.fdata]

block_p1(c) ==
    diff_git_raw_out(view_p1(c), reconcile(status(c)).modified_p1,
                     reconcile(status(c)).added_p1, reconcile(status(c)).removed_p1, TRUE)
block_p2(c) ==
    diff_git_raw_out(view_p2(c), reconcile(status(c)).modified_p2,
                     reconcile(status(c)).added_p2, reconcile(status(c)).removed_p2, TRUE)

\* log_git_record with the p2-relative block written first
log_git_record_p2First(c) ==
    IF Len(c.prevs) = 1
    THEN dump_metadata(c)
         \o diff_git_raw_out(c, c.modified, statusAdded(c.f1, c.f2),
                             statusRemoved(c.f1, c.f2), TRUE)
    ELSE dump_metadata(c)
         \o block_p2(c) \o writeln(Bytes(Delimiter)) \o block_p1(c)

log_git_record(c) ==
    IF Len(c.prevs) = 1
    THEN dump_metadata(c)
         \o diff_git_raw_out(c, c.modified, statusAdded(c.f1, c.f2),
                             statusRemoved(c.f1, c.f2), TRUE)
    ELSE dump_metadata(c)
         \o block_p1(c) \o writeln(Bytes(Delimiter)) \o block_p2(c)

\* the paths a content diff against a parent can name: what the manifests
\* add or remove, and any modified path whose content really changed
Diffs(f1, f2, modified) ==
    {statusAdded(f1, f2) \cup statusRemoved(f1, f2) \cup mustBeModified(f1, f2) \cup S :
        S \in SUBSET modified}

\* the parents of revision r: the null revision for the root
OneParent(r) == <<r - 1>>
TwoParents(r) == <<r - 1, r - 2>>

Init ==
    /\ cmd = "log-git"
    /\ pc = "start"
    /\ revs = <<>>
    /\ limit \in {-1} \cup 1..NumRevs
    /\ i = 0
    /\ \E n \in {0, NumRevs}, reverse \in BOOLEAN :
         cs = [parents |-> 0, len |-> n, reverse |-> reverse]
    /\ out = <<>>
    /\ done = <<>>

\* len(repo) == 0 returns; revs == None walks 0:tip or tip:0
log_git_start ==
    /\ cmd = "log-git"
    /\ pc = "start"
    /\ IF cs.len = 0
       THEN pc' = "done" /\ revs' = <<>>
       ELSE /\ pc' = "run"
            /\ revs' = [n \in 1..cs.len |-> IF cs.reverse THEN n - 1 ELSE cs.len - n]
    /\ UNCHANGED <<cmd, limit, i, cs, out, done>>

\* one turn of the loop writes the record of ctx = repo[r]; out is the record
\* being written and cs the changeset it is written for
log_git_write(c) ==
    /\ cs' = c
    /\ out' = log_git_record(c)
    /\ pc' = "written"
    /\ UNCHANGED <<cmd, revs, limit, i, done>>

\* i += 1; if i == limit: break -- or the range is exhausted.  The record is
\* complete: its revision joins done and the next turn starts a new record.
log_git_advance ==
    /\ cmd = "log-git"
    /\ pc = "written"
    /\ done' = Append(done, cs.rev)
    /\ i' = i + 1
    /\ pc' = IF i + 1 = limit \/ i + 1 = Len(revs) THEN "done" ELSE "run"
    /\ cs' = [parents |-> 0, len |-> Len(revs), reverse |-> FALSE]
    /\ out' = <<>>
    /\ UNCHANGED <<cmd, revs, limit>>

log_git_one_parent ==
    /\ cmd = "log-git"
    /\ pc = "run"
    /\ i < Len(revs)
    /\ \E f1 \in (IF revs[i + 1] = 0 THEN {NullSnapshot} ELSE RegularSnapshots),
          f2 \in RegularSnapshots :
         \E modified \in SUBSET mayBeModified(f1, f2), renamed \in Provenances(f1, f2) :
           log_git_write([parents |-> 1, rev |-> revs[i + 1], prevs |-> OneParent(revs[i + 1]),
                         desc |-> LogDesc, f1 |-> f1, f2 |-> f2, modified |-> modified,
                         renamed |-> renamed, copied |-> NoProvenance,
                         pdata |-> EmptyData, fdata |-> EmptyData])

log_git_merge ==
    /\ cmd = "log-git"
    /\ pc = "run"
    /\ i < Len(revs)
    /\ revs[i + 1] >= 2
    /\ \E fp1 \in RegularSnapshots, fp2 \in RegularSnapshots, f2 \in RegularSnapshots :
         \E m1 \in SUBSET mayBeModified(fp1, f2), m2 \in SUBSET mayBeModified(fp2, f2),
            renamed \in Provenances(fp1, f2) \cap Provenances(fp2, f2) :
           \E d1 \in Diffs(fp1, f2, m1), d2 \in Diffs(fp2, f2, m2) :
             log_git_write([parents |-> 2, rev |-> revs[i + 1], prevs |-> TwoParents(revs[i + 1]),
                           desc |-> LogDesc, fp1 |-> fp1, fp2 |-> fp2, f2 |-> f2,
                           modified_p1 |-> m1, modified_p2 |-> m2, diff1 |-> d1, diff2 |-> d2,
                           renamed |-> renamed, copied |-> NoProvenance,
                           pdata |-> EmptyData, fdata |-> EmptyData])

Next == log_git_start \/ log_git_one_parent \/ log_git_merge \/ log_git_advance

Spec == Init /\ [][Next]_vars

(***************************************************************************)
(* __dump(repo, start, end), called by dump with the whole repository.     *)
(* One step is one turn of the loop over range(start, end).  c.data[p] is  *)
(* the content of path p in the changeset, c.f2[p] its flags; c.py3 tells  *)
(* whether the interpreter is Python 3 (sys.version_info >= (3, 0)).       *)
(***************************************************************************)
\* the descriptions and contents tried: b'' and b'\n#@!_-=&\n5', which holds
\* newlines and the delimiter line and ends in a digit without a newline
Payloads == {<<>>, <<"\n">> \o Delimiter \o <<"\n", "5">>}

pathName(p) == <<"f">> \o int_to_str(p)

flagBytes(flags) == IF flags = "" THEN <<>> ELSE <<flags>>

\* b' '.join(fctx.flags()): iterating bytes gives one-byte strings on Python 2
\* and integers on Python 3, which join rejects with a TypeError
joinFails(c, p) == c.py3 /\ c.f2[p] # ""

\* added + modified: the status lists, each sorted
dumpFiles(c) == sorted(statusAdded(c.f1, c.f2)) \o sorted(c.modified)

\* dumpEntry with the content written by writeln
dumpEntry_terminated(c, p) ==
    writeln(Bytes(pathName(p)))
    \o writeln(Bytes(flagBytes(c.f2[p])))
    \o writeln(Bytes(int_to_str(Len(c.data[p]))))
    \o writeln(Bytes(c.data[p]))

dumpEntry(c, p) ==
    writeln(Bytes(pathName(p)))
    \o writeln(Bytes(flagBytes(c.f2[p])))
    \o writeln(Bytes(int_to_str(Len(c.data[p]))))
    \o write(Bytes(c.data[p]))

dumpHead(c) ==
    dump_metadata(c)
    \o writeln(Bytes(int_to_str(Cardinality(c.modified))))
    \o writeln(Bytes(int_to_str(Cardinality(statusAdded(c.f1, c.f2)))))
    \o writeln(Bytes(int_to_str(Cardinality(statusRemoved(c.f1, c.f2)))))

\* the files whose entry raises, in the order of the loop
failing(c) == {n \in 1..Len(dumpFiles(c)) : joinFails(c, dumpFiles(c)[n])}

dumpCompletes(c) == failing(c) = {}

dump_record(c) ==
    LET files == dumpFiles(c)
        rem == sorted(statusRemoved(c.f1, c.f2))
    IN IF dumpCompletes(c)
       THEN dumpHead(c)
            \o Flatten([n \in 1..Len(files) |-> dumpEntry(c, files[n])])
            \o Flatten([n \in 1..Len(rem) |-> writeln(Bytes(pathName(rem[n])))])
       ELSE dumpHead(c)
            \o Flatten([n \in 1..(Min(failing(c)) - 1) |-> dumpEntry(c, files[n])])
            \o writeln(Bytes(pathName(files[Min(failing(c))])))

\* the contents read: of the added and modified files only
DumpData(f1, f2, modified) ==
    {d \in [Paths -> Payloads] :
        \A p \in Paths : p \notin statusAdded(f1, f2) \cup modified => d[p] = EmptyData}

InitDump ==
    /\ cmd = "dump"
    /\ pc = "start"
    /\ revs = <<>>
    /\ limit = -1
    /\ i = 0
    /\ \E n \in {0, NumRevs}, py3 \in BOOLEAN :
         cs = [parents |-> 0, len |-> n, py3 |-> py3]
    /\ out = <<>>
    /\ done = <<>>

\* range(0, len(repo))
dump_start ==
    /\ cmd = "dump"
    /\ pc = "start"
    /\ revs' = [n \in 1..cs.len |-> n - 1]
    /\ pc' = IF cs.len = 0 THEN "done" ELSE "run"
    /\ UNCHANGED <<cmd, limit, i, cs, out, done>>

dump_write ==
    /\ cmd = "dump"
    /\ pc = "run"
    /\ i < Len(revs)
    /\ \E f1 \in (IF revs[i + 1] = 0 THEN {NullSnapshot} ELSE RegularSnapshots),
          f2 \in Snapshots,
          prevs \in {OneParent(revs[i + 1])}
                       \cup (IF revs[i + 1] >= 2 THEN {TwoParents(revs[i + 1])} ELSE {}),
          desc \in Payloads :
         \E modified \in SUBSET mayBeModified(f1, f2) :
           /\ mustBeModified(f1, f2) \subseteq modified
           /\ \E data \in DumpData(f1, f2, modified) :
                /\ cs' = [parents |-> Len(prevs), rev |-> revs[i + 1], prevs |-> prevs,
                          desc |-> desc, f1 |-> f1, f2 |-> f2, modified |-> modified,
                          data |-> data, py3 |-> cs.py3]
                /\ out' = dump_record(cs')
                /\ pc' = IF dumpCompletes(cs') THEN "written" ELSE "failed"
    /\ UNCHANGED <<cmd, revs, limit, i, done>>

\* the record is complete; the loop goes on to the next revision
dump_advance ==
    /\ cmd = "dump"
    /\ pc = "written"
    /\ done' = Append(done, cs.rev)
    /\ i' = i + 1
    /\ pc' = IF i + 1 = Len(revs) THEN "done" ELSE "run"
    /\ cs' = [parents |-> 0, len |-> Len(revs), py3 |-> cs.py3]
    /\ out' = <<>>
    /\ UNCHANGED <<cmd, revs, limit>>

NextDump == dump_start \/ dump_write \/ dump_advance

SpecDump == InitDump /\ [][NextDump]_vars

(***************************************************************************)
(* Reading the stream back.                                                *)
(***************************************************************************)
isBytes(ch, b) == ch.k = "bytes" /\ ch.v = b

\* the chunks after the metadata record of changeset c
bodyOf(o, c) == SubSeq(o, Len(dump_metadata(c)) + 1, Len(o))

\* the positions of the delimiter lines in a run of chunks
delimitersIn(o) == {n \in 1..Len(o) : isBytes(o[n], Delimiter)}

\* the index lines written in a run of chunks, in order
RECURSIVE linesOf(_)
linesOf(o) ==
    IF Len(o) = 0 THEN <<>>
    ELSE IF Head(o).k = "index" THEN <<Head(o).v>> \o linesOf(Tail(o))
    ELSE linesOf(Tail(o))

\* the two raw-diff blocks of a merge record: before and after the delimiter line
firstBlock(o, c) ==
    LET b == bodyOf(o, c) IN SubSeq(b, 1, Min(delimitersIn(b) \cup {Len(b) + 1}) - 1)
secondBlock(o, c) ==
    LET b == bodyOf(o, c) IN SubSeq(b, Min(delimitersIn(b) \cup {Len(b)}) + 1, Len(b))

keyPaths(ls) == {ls[n].path : n \in 1..Len(ls)}
keyPathsOf(ls, ops) == {ls[n].path : n \in {m \in 1..Len(ls) : ls[m].op \in ops}}

\* the paths the patch bodies in a run of chunks cover
RECURSIVE patchPaths(_)
patchPaths(o) ==
    IF Len(o) = 0 THEN {}
    ELSE IF Head(o).k = "patch" THEN Head(o).v \cup patchPaths(Tail(o))
    ELSE patchPaths(Tail(o))

mergeWritten == cmd = "log-git" /\ pc = "written" /\ cs.parents = 2

(***************************************************************************)
(* C1.  For a two-parent changeset processed by log_git, every path of     *)
(* the four reconciled sets handed to the emitter (and so every path that  *)
(* gets an M, A, R or C line in either block) has a non-empty diff against *)
(* p1 and a non-empty diff against p2; a candidate whose diff against      *)
(* either parent is empty is in none of the four sets.                     *)
(***************************************************************************)
C1_ReconciledPathsDifferFromBothParents ==
    mergeWritten =>
        LET s == status(cs)
            four == combined_modified_p1(s) \cup combined_added_p1(s)
                    \cup combined_modified_p2(s) \cup combined_added_p2(s)
            cands == candidate_modified_p1(s) \cup candidate_added_p1(s)
                     \cup candidate_modified_p2(s) \cup candidate_added_p2(s)
            written == keyPathsOf(linesOf(bodyOf(out, cs)), {"M", "A", "R", "C"})
        IN /\ \A p \in four \cup written : p \in cs.diff1 /\ p \in cs.diff2
           /\ \A p \in cands : (p \notin cs.diff1 \/ p \notin cs.diff2) => p \notin four \cup written

\* a merge with a path kept in a reconciled set and a candidate dropped for an
\* empty diff against p1
C1_Witness ==
    /\ mergeWritten
    /\ combined_modified_p2(status(cs)) # {}
    /\ \E p \in candidate_modified_p1(status(cs)) : p \notin cs.diff1 /\ p \in cs.diff2
    /\ keyPathsOf(linesOf(bodyOf(out, cs)), {"M"}) # {}

(***************************************************************************)
(* C2.  As claimed: for a merge where path x is Modified against P1 and    *)
(* Added against P2 and the diff of x against P1 is empty, x is absent     *)
(* from the p1-relative block and is retained in the p2-relative block     *)
(* whenever its diff against P2 is non-empty.                              *)
(***************************************************************************)
C2_Claimed_RetainedInP2Block ==
    mergeWritten =>
        \A x \in Paths :
            (x \in cs.modified_p1 /\ x \in status(cs).added_p2 /\ x \notin cs.diff1) =>
                /\ x \notin keyPaths(linesOf(firstBlock(out, cs)))
                /\ (x \in cs.diff2 => x \in keyPaths(linesOf(secondBlock(out, cs))))

(***************************************************************************)
(* C2, amended.  In that case x is absent from both blocks: no index line  *)
(* of the p1-relative or of the p2-relative block has x as key path, and   *)
(* no patch body covers x.                                                 *)
(***************************************************************************)
C2_DroppedFromBothBlocks ==
    mergeWritten =>
        \A x \in Paths :
            (x \in cs.modified_p1 /\ x \in status(cs).added_p2 /\ x \notin cs.diff1) =>
                /\ x \notin keyPaths(linesOf(firstBlock(out, cs)))
                /\ x \notin keyPaths(linesOf(secondBlock(out, cs)))
                /\ x \notin patchPaths(bodyOf(out, cs))

\* such a path x exists, its diff against P2 is not empty, and the record is written
C2_Witness ==
    /\ mergeWritten
    /\ \E x \in Paths : x \in cs.modified_p1 /\ x \in status(cs).added_p2
                        /\ x \notin cs.diff1 /\ x \in cs.diff2
    /\ Len(out) > Len(dump_metadata(cs))

(***************************************************************************)
(* The comparison diff_git_raw has written, and the similarity of the      *)
(* renamed file's content to its parent's, worked out from the matching    *)
(* blocks alone: 100 for two empty contents, 0 below one half,             *)
(* otherwise floor(200 * matches / length).                                *)
(***************************************************************************)
rawDone == cmd = "diff-git-raw" /\ pc = "done"

rawLines == linesOf(out)

lineOf(ls, p) == CHOOSE l \in {ls[n] : n \in 1..Len(ls)} : l.path = p

isRC(l) == l.op \in {"R", "C"}

matched == matches(cs.pdata, cs.fdata, 1, Len(cs.pdata) + 1, 1, Len(cs.fdata) + 1)
total == Len(cs.pdata) + Len(cs.fdata)
belowThreshold == total > 0 /\ 4 * matched < total
similarityScore ==
    IF total = 0 THEN 100 ELSE IF belowThreshold THEN 0 ELSE (200 * matched) \div total

(***************************************************************************)
(* C3.  As claimed: every R or C index line carries an integer score in    *)
(* [0,100] that is never below 50, and an Added path with rename           *)
(* provenance whose similarity is below the threshold 0.5 gets no R or C   *)
(* line.                                                                   *)
(***************************************************************************)
C3_Claimed_NoScoreBelow50 ==
    rawDone =>
        LET ls == rawLines IN
        /\ \A n \in 1..Len(ls) :
               isRC(ls[n]) => ls[n].score \in 50..100
        /\ \A p \in rawAdded(cs) :
               (cs.renamed[p] # None /\ belowThreshold) => ~isRC(lineOf(ls, p))

(***************************************************************************)
(* C3, amended.  Every R or C index line carries an integer score that is  *)
(* 0 or lies in [50,100].  An Added path with rename provenance always     *)
(* gets an R or C line; its score is int(similarity * 100) when the        *)
(* similarity is at least 0.5 and 0 when it is below.                      *)
(***************************************************************************)
C3_ScoreZeroOrAtLeast50 ==
    rawDone =>
        LET ls == rawLines
            similarity == similarityScore
        IN /\ \A n \in 1..Len(ls) :
                  isRC(ls[n]) => ls[n].score \in {0} \cup 50..100
           /\ \A p \in rawAdded(cs) :
                  cs.renamed[p] # None =>
                      /\ isRC(lineOf(ls, p))
                      /\ lineOf(ls, p).score = similarity
                      /\ belowThreshold => lineOf(ls, p).score = 0

\* a path with rename provenance whose content is less than half similar to its
\* parent's is written as R or C with score 0
C3_Witness ==
    /\ rawDone
    /\ \E p \in rawAdded(cs) :
           /\ cs.renamed[p] # None
           /\ belowThreshold
           /\ matched > 0
           /\ isRC(lineOf(rawLines, p))
           /\ lineOf(rawLines, p).score = 0

(***************************************************************************)
(* C4.  For one comparison with pairwise disjoint Modified, Added and      *)
(* Removed sets, the number of index lines is |Modified| + |Added| +       *)
(* |Removed minus consumed|, where a Removed path is consumed exactly when *)
(* it is the source named on the R line of some Added path; every path of  *)
(* Modified and of Added has exactly one line, every R or C line names one *)
(* Added path and one source, which is Removed for R and not Removed for   *)
(* C, and the D lines are exactly the Removed paths that are not consumed. *)
(***************************************************************************)
sourceNamed(p) == IF cs.renamed[p] # None THEN cs.renamed[p] ELSE cs.copied[p]

consumed == rawRemoved(cs) \cap {sourceNamed(p) : p \in rawAdded(cs)}

linesFor(ls, p) == {n \in 1..Len(ls) : ls[n].path = p}

C4_LineCountAfterConsolidation ==
    rawDone =>
        LET ls == rawLines
            used == consumed
            modified == rawModified(cs)
            added == rawAdded(cs)
            removed == rawRemoved(cs)
        IN /\ Len(ls) = Cardinality(modified) + Cardinality(added)
                         + Cardinality(removed \ used)
           /\ \A p \in modified :
                  Cardinality(linesFor(ls, p)) = 1 /\ lineOf(ls, p).op = "M"
           /\ \A p \in added :
                  Cardinality(linesFor(ls, p)) = 1 /\ lineOf(ls, p).op \in {"A", "R", "C"}
           /\ \A n \in 1..Len(ls) :
                  /\ ls[n].op = "R" => ls[n].path \in added /\ ls[n].old \in used
                  /\ ls[n].op = "C" => ls[n].path \in added /\ ls[n].old \notin removed
           /\ keyPathsOf(ls, {"D"}) = removed \ used
           /\ \A r \in used : \E n \in 1..Len(ls) :
                  ls[n].op = "R" /\ ls[n].old = r

\* a removed path consumed by an R line, next to a removed path that keeps its D line
C4_Witness ==
    /\ rawDone
    /\ consumed # {}
    /\ \E n \in 1..Len(rawLines) : rawLines[n].op = "R"
    /\ Len(rawLines) < Cardinality(rawModified(cs)) + Cardinality(rawAdded(cs))
                       + Cardinality(rawRemoved(cs))

(***************************************************************************)
(* C5.  Every Added path is classified by fixed precedence: with rename    *)
(* provenance naming old_path the line is R when old_path is Removed and   *)
(* C otherwise, with the computed similarity score; else with a            *)
(* path-copies entry naming old_path the line is R when old_path is        *)
(* Removed and C otherwise, with score 100; else the line is a plain A.    *)
(* A path with both is resolved by the rename-provenance rule.             *)
(***************************************************************************)
C5_AddedPathPrecedence ==
    rawDone =>
        LET ls == rawLines
            removed == rawRemoved(cs)
            similarity == similarityScore
        IN
        \A p \in rawAdded(cs) :
            LET l == lineOf(ls, p) IN
            IF cs.renamed[p] # None THEN
                /\ l.op = (IF cs.renamed[p] \in removed THEN "R" ELSE "C")
                /\ l.old = cs.renamed[p]
                /\ l.score = similarity
            ELSE IF cs.copied[p] # None THEN
                /\ l.op = (IF cs.copied[p] \in removed THEN "R" ELSE "C")
                /\ l.old = cs.copied[p]
                /\ l.score = 100
            ELSE l.op = "A" /\ l.old = None

\* an Added path with rename provenance and a path-copies entry, whose line carries
\* the computed score and not the 100 of the path-copies rule
C5_Witness ==
    /\ rawDone
    /\ \E p \in rawAdded(cs) :
           /\ cs.renamed[p] # None
           /\ cs.copied[p] # None
           /\ lineOf(rawLines, p).old = cs.renamed[p]
           /\ lineOf(rawLines, p).score = similarityScore
           /\ lineOf(rawLines, p).score # 100

(***************************************************************************)
(* C6.  As claimed: in every R or C index line, whether it comes from      *)
(* rename provenance or from the path-copies map, the first mode field is  *)
(* the mode of old_path in the base changeset and the second the mode of   *)
(* the new path in the target changeset, each one of 100644, 100755 and    *)
(* 120000.                                                                 *)
(***************************************************************************)
Modes == {"100644", "100755", "120000"}

C6_Claimed_OldModeIsModeOfOldPath ==
    rawDone =>
        LET ls == rawLines IN
        \A n \in 1..Len(ls) :
            isRC(ls[n]) =>
                /\ ls[n].m1 = mode(cs.f1[ls[n].old])
                /\ ls[n].m2 = mode(cs.f2[ls[n].path])
                /\ ls[n].m1 \in Modes
                /\ ls[n].m2 \in Modes

(***************************************************************************)
(* The shape of one raw-diff block written with showPatch: index lines,    *)
(* each ended by a newline, then an empty line, then at most one patch     *)
(* body, and no delimiter line anywhere.                                   *)
(***************************************************************************)
isBlock(b) ==
    LET n == Len(linesOf(b)) IN
    /\ Len(b) \in {2 * n + 2, 2 * n + 3}
    /\ \A k \in 1..n : b[2 * k - 1].k = "index" /\ b[2 * k] = NL
    /\ isBytes(b[2 * n + 1], <<>>)
    /\ b[2 * n + 2] = NL
    /\ Len(b) = 2 * n + 3 => b[2 * n + 3].k = "patch"
    /\ delimitersIn(b) = {}

\* the paths a block gives up as removed: its D lines and the sources of its R lines
removedIn(b) ==
    keyPathsOf(linesOf(b), {"D"})
    \cup {linesOf(b)[n].old : n \in {m \in 1..Len(linesOf(b)) : linesOf(b)[m].op = "R"}}

\* the paths of modified and of added that have a non-empty diff against both parents
keptOf(c, modified, added_other, modified_other) ==
    {p \in modified \cap (modified_other \cup added_other) : p \in c.diff1 /\ p \in c.diff2}

\* the chunks of a merge record after the delimiter line between its blocks
afterDelimiter(o, c) ==
    LET b == bodyOf(o, c) IN SubSeq(b, Min(delimitersIn(b) \cup {Len(b) - 1}) + 2, Len(b))

(***************************************************************************)
(* C9.  Every record log_git writes is for the next changeset of the       *)
(* range, in range order, and is the metadata record followed by exactly   *)
(* one raw-diff block (with patch body) when the changeset has one parent, *)
(* and by the p1-relative block, exactly one delimiter line and the        *)
(* p2-relative block when it has two; the first block of a merge carries   *)
(* the paths reconciled against p1 and the second those reconciled against *)
(* p2, and both blocks give up the same set as removed: the paths removed  *)
(* relative to both parents.                                               *)
(***************************************************************************)
C9_RecordIsMetadataThenBlocks ==
    (cmd = "log-git" /\ pc = "written") =>
        LET md == dump_metadata(cs)
            b == bodyOf(out, cs)
            s == status(cs)
        IN /\ Append(done, cs.rev) = SubSeq(revs, 1, i + 1)
           /\ SubSeq(out, 1, Len(md)) = md
           /\ isBytes(out[1], Delimiter)
           /\ delimitersIn(SubSeq(md, 2, Len(md))) = {}
           /\ IF cs.parents = 1
              THEN /\ isBlock(b)
                   /\ keyPathsOf(linesOf(b), {"M"}) = cs.modified
                   /\ keyPathsOf(linesOf(b), {"A", "R", "C"}) = statusAdded(cs.f1, cs.f2)
                   /\ removedIn(b) = statusRemoved(cs.f1, cs.f2)
              ELSE /\ Cardinality(delimitersIn(b)) = 1
                   /\ \A n \in delimitersIn(b) : n < Len(b) /\ b[n + 1] = NL
                   /\ isBlock(firstBlock(out, cs))
                   /\ isBlock(afterDelimiter(out, cs))
                   /\ keyPathsOf(linesOf(firstBlock(out, cs)), {"M"})
                          = keptOf(cs, s.modified_p1, s.added_p2, s.modified_p2)
                   /\ keyPathsOf(linesOf(firstBlock(out, cs)), {"A", "R", "C"})
                          = keptOf(cs, s.added_p1, s.added_p2, s.modified_p2)
                   /\ keyPathsOf(linesOf(afterDelimiter(out, cs)), {"M"})
                          = keptOf(cs, s.modified_p2, s.added_p1, s.modified_p1)
                   /\ keyPathsOf(linesOf(afterDelimiter(out, cs)), {"A", "R", "C"})
                          = keptOf(cs, s.added_p2, s.added_p1, s.modified_p1)
                   /\ removedIn(firstBlock(out, cs)) = s.removed_p1 \cap s.removed_p2
                   /\ removedIn(afterDelimiter(out, cs)) = s.removed_p1 \cap s.removed_p2

\* the second record of a range is a merge whose two blocks differ: a path
\* modified against p1 and added against p2, and a path removed against both
C9_Witness ==
    /\ mergeWritten
    /\ i >= 1
    /\ keyPathsOf(linesOf(firstBlock(out, cs)), {"M"}) # {}
    /\ keyPathsOf(linesOf(firstBlock(out, cs)), {"M"})
           \subseteq keyPathsOf(linesOf(afterDelimiter(out, cs)), {"A", "R", "C"})
    /\ removedIn(firstBlock(out, cs)) # {}
    /\ Cardinality(delimitersIn(bodyOf(out, cs))) = 1

(***************************************************************************)
(* C10.  Merge reconciliation is idempotent: with the reconciled sets      *)
(* (modified and added relative to p1, modified and added relative to p2,  *)
(* removed_both for both sides) fed back in as the per-parent status sets  *)
(* and the same content-diff results, reconciliation yields the same four  *)
(* filtered sets and the same removed_both.                                *)
(***************************************************************************)
C10_ReconciliationIdempotent ==
    mergeWritten =>
        LET once == reconcile(status(cs))
            twice == reconcile(once)
        IN /\ twice.modified_p1 = once.modified_p1
           /\ twice.added_p1 = once.added_p1
           /\ twice.modified_p2 = once.modified_p2
           /\ twice.added_p2 = once.added_p2
           /\ removed_both(once) = removed_both(status(cs))
           /\ twice = once

\* a merge where reconciliation drops a candidate and keeps a path that is
\* modified against one parent and added against the other
C10_Witness ==
    /\ mergeWritten
    /\ \E p \in status(cs).added_p2 \cap cs.modified_p1 :
           p \in reconcile(status(cs)).added_p2 /\ p \in reconcile(status(cs)).modified_p1
    /\ \E p \in candidate_modified_p1(status(cs)) \cup candidate_modified_p2(status(cs)) :
           p \notin reconcile(status(cs)).modified_p1 \cup reconcile(status(cs)).modified_p2

(***************************************************************************)
(* A consumer of the bulk dump: it reads the bytes of a record field by    *)
(* field, a line up to its newline and a payload by the length declared    *)
(* on the line before it.                                                  *)
(***************************************************************************)
bytesOf(o) == Flatten([n \in 1..Len(o) |-> o[n].v])

isNumber(d) == Len(d) > 0 /\ \A k \in 1..Len(d) : \E v \in 0..9 : Digits[v + 1] = d[k]

RECURSIVE StrToNat(_)
StrToNat(d) ==
    IF Len(d) = 0 THEN 0
    ELSE 10 * StrToNat(SubSeq(d, 1, Len(d) - 1))
         + (CHOOSE v \in 0..9 : Digits[v + 1] = d[Len(d)])

Failed(pos) == [ok |-> FALSE, v |-> <<>>, next |-> pos]

\* the position of the first newline at or after pos, 0 when there is none
RECURSIVE newlineFrom(_, _)
newlineFrom(s, pos) ==
    IF pos > Len(s) THEN 0 ELSE IF s[pos] = "\n" THEN pos ELSE newlineFrom(s, pos + 1)

readLine(s, pos) ==
    LET end == newlineFrom(s, pos)
    IN IF end = 0 THEN Failed(pos)
       ELSE [ok |-> TRUE, v |-> SubSeq(s, pos, end - 1), next |-> end + 1]

RECURSIVE readLines(_, _, _)
readLines(s, pos, k) ==
    IF k = 0 THEN [ok |-> TRUE, v |-> <<>>, next |-> pos]
    ELSE LET l == readLine(s, pos) IN
         IF ~l.ok THEN Failed(pos)
         ELSE LET rest == readLines(s, l.next, k - 1) IN
              IF ~rest.ok THEN Failed(pos)
              ELSE [ok |-> TRUE, v |-> <<l.v>> \o rest.v, next |-> rest.next]

\* a length line and the payload of that many bytes after it
readPayload(s, pos) ==
    LET l == readLine(s, pos) IN
    IF ~l.ok \/ ~isNumber(l.v) THEN Failed(pos)
    ELSE LET n == StrToNat(l.v) IN
         IF l.next + n - 1 > Len(s) THEN Failed(pos)
         ELSE [ok |-> TRUE, v |-> SubSeq(s, l.next, l.next + n - 1), next |-> l.next + n]

\* k file entries: path line, flags line, length line, payload
RECURSIVE readEntries(_, _, _)
readEntries(s, pos, k) ==
    IF k = 0 THEN [ok |-> TRUE, v |-> <<>>, next |-> pos]
    ELSE LET h == readLines(s, pos, 2) IN
         IF ~h.ok THEN Failed(pos)
         ELSE LET d == readPayload(s, h.next) IN
              IF ~d.ok THEN Failed(pos)
              ELSE LET rest == readEntries(s, d.next, k - 1) IN
                   IF ~rest.ok THEN Failed(pos)
                   ELSE [ok |-> TRUE,
                         v |-> <<[path |-> h.v[1], flags |-> h.v[2], data |-> d.v]>> \o rest.v,
                         next |-> rest.next]

\* the fields of a record as the consumer reads them: the eight lines from the
\* delimiter to the date, the description, the three counts, the file entries
\* each read from where the field before it ended
readHead(s) == readLines(s, 1, 8)
readDesc(s, head) == readPayload(s, head.next)
readCounts(s, desc) == readLines(s, desc.next, 3)
readFiles(s, counts, entries) == readEntries(s, counts.next, entries)

dumpWritten == cmd = "dump" /\ pc = "written"
dumpFailed == cmd = "dump" /\ pc = "failed"

\* the file entries written in full
entriesWritten == IF pc = "written" THEN Len(dumpFiles(cs)) ELSE Min(failing(cs)) - 1

\* the chunks that are length lines: the description's and each written entry's
lengthChunks ==
    {Len(dump_metadata(cs)) - 2}
    \cup {Len(dumpHead(cs)) + 7 * n - 2 : n \in 1..entriesWritten}

removedNames(c) ==
    [n \in 1..Cardinality(statusRemoved(c.f1, c.f2)) |->
        pathName(sorted(statusRemoved(c.f1, c.f2))[n])]

(***************************************************************************)
(* C7.  In the stream of __dump_metadata and __dump every decimal length   *)
(* line (of the description, of a file's content) is followed at once, as  *)
(* the next write after the line's newline, by exactly that many bytes of  *)
(* the same description or file, whatever the bytes are (newlines and the  *)
(* delimiter string included), and the next field starts right after the   *)
(* payload: a consumer that reads each payload by its declared length      *)
(* gets back the description, the counts, every path and every content,    *)
(* and in a complete record the removed paths and the end of the record.   *)
(***************************************************************************)
C7_LengthLineThenExactlyThatPayload ==
    (dumpWritten \/ dumpFailed) =>
        LET s == bytesOf(out)
            files == dumpFiles(cs)
            desc == readDesc(s, readHead(s))
            counts == readCounts(s, desc)
            read == readFiles(s, counts, entriesWritten)
        IN /\ \A p \in lengthChunks :
                  /\ p + 2 <= Len(out)
                  /\ out[p + 1] = NL
                  /\ isNumber(out[p].v)
                  /\ StrToNat(out[p].v) = Len(out[p + 2].v)
           /\ out[Len(dump_metadata(cs))] = Bytes(cs.desc)
           /\ \A n \in 1..entriesWritten :
                  out[Len(dumpHead(cs)) + 7 * n] = Bytes(cs.data[files[n]])
           /\ desc.ok
           /\ desc.v = cs.desc
           /\ counts.ok
           /\ counts.v = <<int_to_str(Cardinality(cs.modified)),
                                  int_to_str(Cardinality(statusAdded(cs.f1, cs.f2))),
                                  int_to_str(Cardinality(statusRemoved(cs.f1, cs.f2)))>>
           /\ read.ok
           /\ Len(read.v) = entriesWritten
           /\ \A n \in 1..entriesWritten :
                  /\ read.v[n].path = pathName(files[n])
                  /\ read.v[n].data = cs.data[files[n]]
           /\ dumpWritten =>
                  LET rem == readLines(s, read.next, Len(removedNames(cs)))
                  IN rem.ok /\ rem.v = removedNames(cs) /\ rem.next = Len(s) + 1

\* a complete record whose description and whose two file contents hold
\* newlines and the delimiter line and end in a digit without a newline
C7_Witness ==
    /\ dumpWritten
    /\ cs.desc = <<"\n">> \o Delimiter \o <<"\n", "5">>
    /\ Len(dumpFiles(cs)) = 2
    /\ cs.data[dumpFiles(cs)[1]] = cs.desc
    /\ cs.data[dumpFiles(cs)[2]] = cs.desc
    /\ LET s == bytesOf(out)
       IN readFiles(s, readCounts(s, readDesc(s, readHead(s))), 2).ok

(***************************************************************************)
(* C8.  As claimed: a bulk dump of the range [start, end) emits exactly    *)
(* end - start records in ascending revision order, one after the other;   *)
(* each begins with the delimiter line and the metadata fields, then has   *)
(* the three decimal counts of modified, added and removed paths, then     *)
(* exactly (added count + modified count) file entries (path, flags,       *)
(* length, payload) and then exactly (removed count) bare path lines.      *)
(***************************************************************************)
C8_Claimed_EveryRecordComplete ==
    cmd = "dump" =>
        /\ pc \in {"written", "failed"} =>
               LET s == bytesOf(out)
                   head == readHead(s)
                   desc == readDesc(s, head)
                   counts == readCounts(s, desc)
               IN /\ Append(done, cs.rev) = [n \in 1..(i + 1) |-> n - 1]
                  /\ head.ok
                  /\ head.v[1] = Delimiter
                  /\ head.v[3] = int_to_str(cs.rev)
                  /\ desc.ok
                  /\ counts.ok
                  /\ \A n \in 1..3 : isNumber(counts.v[n])
                  /\ StrToNat(counts.v[1]) = Cardinality(cs.modified)
                  /\ StrToNat(counts.v[2]) = Cardinality(statusAdded(cs.f1, cs.f2))
                  /\ StrToNat(counts.v[3]) = Cardinality(statusRemoved(cs.f1, cs.f2))
                  /\ LET entries == readFiles(s, counts,
                                               StrToNat(counts.v[1]) + StrToNat(counts.v[2]))
                         rem == readLines(s, entries.next, StrToNat(counts.v[3]))
                     IN /\ entries.ok
                        /\ rem.ok
                        /\ rem.next = Len(s) + 1
        /\ pc = "done" => done = [n \in 1..cs.len |-> n - 1]

(***************************************************************************)
(* The byte-wise order Python gives byte strings, on the names of the      *)
(* paths: the digits in their order, all before the letter f.              *)
(***************************************************************************)
Alphabet == Digits \o <<"f">>

ord(ch) == CHOOSE n \in 1..Len(Alphabet) : Alphabet[n] = ch

RECURSIVE lexLess(_, _)
lexLess(a, b) ==
    IF Len(b) = 0 THEN FALSE
    ELSE IF Len(a) = 0 THEN TRUE
    ELSE IF ord(Head(a)) # ord(Head(b)) THEN ord(Head(a)) < ord(Head(b))
    ELSE lexLess(Tail(a), Tail(b))

\* the names of the key paths of a block's index lines, in the order written
keyNames(b) == [n \in 1..Len(linesOf(b)) |-> pathName(linesOf(b)[n].path)]

strictlyAscending(names) ==
    \A n \in 1..(Len(names) - 1) : lexLess(names[n], names[n + 1])

(***************************************************************************)
(* C11.  The index lines written by one _diff_git_raw call are in strictly *)
(* ascending lexicographic order of their key path (the path itself for    *)
(* M, A and D lines, the destination for R and C lines), so no key path    *)
(* has two index lines; this holds for the single block of a one-parent    *)
(* changeset and for each of the two blocks of a merge, whose sets come    *)
(* from the reconciliation.                                                *)
(***************************************************************************)
C11_IndexLinesAscendByKeyPath ==
    (cmd = "log-git" /\ pc = "written") =>
        LET blocks == IF cs.parents = 1 THEN {bodyOf(out, cs)}
                      ELSE {firstBlock(out, cs), afterDelimiter(out, cs)}
        IN \A b \in blocks :
               LET names == keyNames(b) IN
               /\ strictlyAscending(names)
               /\ \A m \in 1..Len(names), n \in 1..Len(names) :
                      names[m] = names[n] => m = n

\* a merge whose p1-relative block has an M line written after the line of
\* an added path, and whose p2-relative block has two lines as well
C11_Witness ==
    /\ mergeWritten
    /\ LET ls == linesOf(firstBlock(out, cs)) IN
       /\ Len(ls) = 2
       /\ ls[1].op \in {"A", "R", "C"}
       /\ ls[2].op = "M"
    /\ Len(linesOf(afterDelimiter(out, cs))) = 2

====
